---- MODULE Spec2Model ----
(***************************************************************************)
(* Task Management and Productivity Tracker: the Express/Mongoose backend  *)
(* (auth controller, access guard, task controller, User and Task schemas) *)
(* as a state machine.  Every await on the store is one atomic step, so a  *)
(* handler with two store calls is a Begin step and a second step that     *)
(* runs from the set of requests in flight.                                *)
(*                                                                         *)
(* Text values that the schemas trim or lower-case (email, title,          *)
(* description) are sequences of one-character strings; enum values and    *)
(* passwords are strings.  A request body is a record whose domain is the  *)
(* set of keys the JSON body carries.                                      *)
(***************************************************************************)
EXTENDS Integers, Sequences, FiniteSets, Bags, TLC

VARIABLES users, tasks, taskSeq, now, issued, inflight, last, client

vars == <<users, tasks, taskSeq, now, issued, inflight, last, client>>

----------------------------------------------------------------------------
(* Bounds of the model *)

\* tasks created in a behaviour of Spec
MaxTasks == 2

\* requests in flight at once, and tasks created, in a behaviour of SpecConcurrent
MaxInflight == 2

MaxConcurrentTasks == 1

\* the clock, the tokens issued and the tasks created in a behaviour of SpecClock
MaxTime == 8

MaxTokens == 2

MaxClockTasks == 1

\* tasks created while updates of one user race (SpecUpdates)
MaxRaceTasks == 1

\* tasks created while the order of the list is observed (SpecOrder)
MaxOrderTasks == 2

\* tasks other sessions create while the browser page runs (SpecClient)
MaxClientTasks == 2

----------------------------------------------------------------------------
(* Program constants *)

\* generateToken: expiresIn '7d', in the time unit of the clock
ExpiresIn == 7

\* userSchema.password minlength
MinPasswordLength == 6

JWT_SECRET == "JWT_SECRET"

\* faulty variant: one more value passes for a priority
PriorityEnumWide == {"High", "Medium", "Low", "Urgent"}

PriorityEnum == {"High", "Medium", "Low"}

StatusEnum == {"Pending", "Completed"}

----------------------------------------------------------------------------
(* Text: String.prototype.trim and toLowerCase as the schema setters apply  *)
(* them                                                                     *)

RECURSIVE TrimLeft(_)
TrimLeft(s) ==
    IF s # <<>> /\ Head(s) = " " THEN TrimLeft(Tail(s)) ELSE s

RECURSIVE TrimRight(_)
TrimRight(s) ==
    IF s # <<>> /\ s[Len(s)] = " " THEN TrimRight(SubSeq(s, 1, Len(s) - 1)) ELSE s

Trim(s) == TrimRight(TrimLeft(s))

LowerChar(c) ==
    CASE c = "A" -> "a"
      [] c = "B" -> "b"
      [] c = "X" -> "x"
      [] OTHER -> c

LowerCase(s) == [i \in 1..Len(s) |-> LowerChar(s[i])]

\* userSchema.email setters: lowercase: true, trim: true
EmailSetters(email) == Trim(LowerCase(email))

\* taskSchema.title / description setter: trim: true
TextSetters(s) == Trim(s)

\* a key of a JSON body: present, and truthy in the JavaScript sense
Has(body, k) == k \in DOMAIN body

\* a text key (a sequence of characters)
TruthyText(body, k) == Has(body, k) /\ body[k] # <<>>

\* an enum or password key (a string)
Truthy(body, k) == Has(body, k) /\ body[k] # ""

----------------------------------------------------------------------------
(* Identifiers.  An ObjectId the store allocated is <<"user", n>> or        *)
(* <<"task", n>>; a URL parameter that is no 24-digit hex string is         *)
(* MalformedId.                                                             *)

NoUser == <<"none", 0>>

NoId == <<"none", 0>>

MalformedId == <<"malformed", 0>>

UserOid(n) == <<"user", n>>

TaskOid(n) == <<"task", n>>

\* Mongoose's cast of a filter value to ObjectId succeeds
IsObjectId(id) == id[1] \in {"user", "task"}

----------------------------------------------------------------------------
(* Token service: jsonwebtoken sign / verify *)

NoToken == [userId |-> NoUser, iat |-> 0, exp |-> 0, secret |-> "none"]

\* faulty variant: expiresIn: '30d'
generateTokenMonth(userId) ==
    [userId |-> userId, iat |-> now, exp |-> now + 30, secret |-> JWT_SECRET]

\* jwt.sign({ userId }, process.env.JWT_SECRET, { expiresIn: '7d' })
generateToken(userId) ==
    [userId |-> userId, iat |-> now, exp |-> now + ExpiresIn, secret |-> JWT_SECRET]

\* faulty variant: the payload is decoded and the signature is not checked
JwtDecodes(token) == now < token.exp

\* faulty variant: only the token issued last for a user is accepted
JwtVerifiesLatest(token) ==
    /\ token.secret = JWT_SECRET /\ now < token.exp
    /\ \A t \in issued : t.userId = token.userId => t.iat <= token.iat

\* jwt.verify(token, process.env.JWT_SECRET) returns instead of throwing
JwtVerifies(token) == token.secret = JWT_SECRET /\ now < token.exp

\* bcrypt.hash with a fresh salt, and bcrypt.compare
Hash(password) == <<"bcrypt", password>>

\* faulty variant: every password is taken to match
comparePasswordAny(enteredPassword, stored) == TRUE

comparePassword(enteredPassword, stored) == stored = Hash(enteredPassword)

----------------------------------------------------------------------------
(* Access guard *)

NoHeader == [present |-> FALSE, scheme |-> "", token |-> NoToken]

\* "scheme token" as authHeader.split(' ') sees it; token = NoToken when the
\* second part is missing or empty
Header(scheme, token) == [present |-> TRUE, scheme |-> scheme, token |-> token]

Denied(message) == [admitted |-> FALSE, userId |-> NoUser, message |-> message]

\* faulty variant: a request with no Authorization header is let through
authMiddlewareOptional(h) ==
    IF ~h.present
    THEN [admitted |-> TRUE, userId |-> NoUser, message |-> ""]
    ELSE IF h.token = NoToken
    THEN Denied("Token not found. Authorization denied.")
    ELSE IF ~JwtVerifies(h.token)
    THEN Denied("Invalid or expired token. Authorization denied.")
    ELSE [admitted |-> TRUE, userId |-> h.token.userId, message |-> ""]

authMiddleware(h) ==
    IF ~h.present
    THEN Denied("No token provided. Authorization denied.")
    ELSE IF h.token = NoToken
    THEN Denied("Token not found. Authorization denied.")
    ELSE IF ~JwtVerifies(h.token)
    THEN Denied("Invalid or expired token. Authorization denied.")
    ELSE [admitted |-> TRUE, userId |-> h.token.userId, message |-> ""]

\* the 401 the guard sends; the route's handler is not called
GuardResponse(route, id, g) ==
    [route |-> route, by |-> "authMiddleware", reqUserId |-> NoUser, id |-> id,
     status |-> 401, message |-> g.message]

\* a response of a controller function
Response(route, reqUserId, id, status, message) ==
    [route |-> route, by |-> route, reqUserId |-> reqUserId, id |-> id,
     status |-> status, message |-> message]

----------------------------------------------------------------------------
(* Credential store and auth controller *)

\* faulty variant: the filter value is compared as sent
FindUserByEmailRaw(email) == {u \in users : u.email = email}

\* User.findOne({ email }): the filter value passes the schema's setters
FindUserByEmail(email) == {u \in users : u.email = EmailSetters(email)}

NewUserId == UserOid(Cardinality(users) + 1)

Start(r) == inflight (+) SetToBag({r})

Finish(r) == inflight (-) SetToBag({r})

Pending(op) == {r \in BagToSet(inflight) : r.op = op}

\* register, up to the await of User.findOne
RegisterBegin(body) ==
    /\ UNCHANGED <<users, tasks, taskSeq, now, issued, client>>
    /\ IF ~TruthyText(body, "email") \/ ~Truthy(body, "password")
       THEN /\ last' = Response("register", NoUser, NoId, 400,
                                "Please provide both email and password")
            /\ UNCHANGED inflight
       ELSE IF FindUserByEmail(body.email) # {}
       THEN /\ last' = Response("register", NoUser, NoId, 400,
                                "User with this email already exists")
            /\ UNCHANGED inflight
       ELSE /\ inflight' = Start([op |-> "register", email |-> body.email,
                                  password |-> body.password])
            /\ UNCHANGED last

\* User.create: setters, validation, then the insert under the unique index
UserValidationFails(email, password) ==
    \/ EmailSetters(email) = <<>>
    \/ Len(password) < MinPasswordLength

\* faulty variant: the collection has no unique index on email
UniqueIndexMissing(email) == FALSE

UniqueIndexRejects(email) == \E u \in users : u.email = EmailSetters(email)

\* register, from User.create to the response
RegisterCreate(r) ==
    /\ r \in Pending("register")
    /\ inflight' = Finish(r)
    /\ UNCHANGED <<tasks, taskSeq, now, client>>
    /\ IF UserValidationFails(r.email, r.password)
       THEN /\ last' = Response("register", NoUser, NoId, 500, "Error registering user")
            /\ UNCHANGED <<users, issued>>
       ELSE IF UniqueIndexRejects(r.email)
       THEN /\ last' = Response("register", NoUser, NoId, 500, "Error registering user")
            /\ UNCHANGED <<users, issued>>
       ELSE LET user == [id |-> NewUserId, email |-> EmailSetters(r.email),
                         password |-> Hash(r.password)]
                token == generateToken(user.id)
            IN  /\ users' = users \cup {user}
                /\ issued' = issued \cup {token}
                /\ last' = Response("register", NoUser, NoId, 201,
                                    "User registered successfully")
                            @@ [token |-> token, userId |-> user.id]

\* login: the user record read by findOne never changes afterwards, so the
\* await of comparePassword is no interleaving point
Login(body) ==
    /\ UNCHANGED <<users, tasks, taskSeq, now, inflight, client>>
    /\ IF ~TruthyText(body, "email") \/ ~Truthy(body, "password")
       THEN /\ last' = Response("login", NoUser, NoId, 400,
                                "Please provide both email and password")
            /\ UNCHANGED issued
       ELSE IF FindUserByEmail(body.email) = {}
       THEN /\ last' = Response("login", NoUser, NoId, 401, "Invalid email or password")
            /\ UNCHANGED issued
       ELSE LET user == CHOOSE u \in FindUserByEmail(body.email) : TRUE
                token == generateToken(user.id)
            IN  IF ~comparePassword(body.password, user.password)
                THEN /\ last' = Response("login", NoUser, NoId, 401,
                                         "Invalid email or password")
                     /\ UNCHANGED issued
                ELSE /\ issued' = issued \cup {token}
                     /\ last' = Response("login", NoUser, NoId, 200, "Login successful")
                                 @@ [token |-> token, userId |-> user.id]

----------------------------------------------------------------------------
(* Task store and task controller *)

TaskPaths == {"title", "description", "priority", "status"}

\* faulty variant: the filter on the owner is left out
FindTasksUnfiltered(userId) == tasks

\* faulty variant: the tasks that are Completed are left out
FindTasksPending(userId) == {t \in tasks : t.userId = userId /\ t.status = "Pending"}

\* Task.find({ userId })
FindTasks(userId) == {t \in tasks : t.userId = userId}

\* faulty variant: the task is looked up by its id alone
FindOneTaskById(taskId, userId) == {t \in tasks : t.id = taskId}

\* Task.findOne({ _id: taskId, userId })
FindOneTask(taskId, userId) == {t \in tasks : t.id = taskId /\ t.userId = userId}

RECURSIVE Orderings(_)
Orderings(S) ==
    IF S = {} THEN {<<>>}
    ELSE UNION {{<<t>> \o rest : rest \in Orderings(S \ {t})} : t \in S}

\* faulty variant: .sort({ createdAt: 1 })
SortOldestFirst(S) ==
    {q \in Orderings(S) :
        \A i, j \in 1..Len(q) : i < j => q[i].createdAt <= q[j].createdAt}

\* .sort({ createdAt: -1 }): the store may return equal keys in either order
SortNewestFirst(S) ==
    {q \in Orderings(S) :
        \A i, j \in 1..Len(q) : i < j => q[i].createdAt >= q[j].createdAt}

getAllTasks(h) ==
    LET g == authMiddleware(h) IN
    /\ UNCHANGED <<users, tasks, taskSeq, now, issued, inflight, client>>
    /\ IF ~g.admitted
       THEN last' = GuardResponse("getAllTasks", NoId, g)
       ELSE \E found \in SortNewestFirst(FindTasks(g.userId)) :
                last' = Response("getAllTasks", g.userId, NoId, 200, "")
                        @@ [count |-> Len(found), tasks |-> found]

\* faulty variant: the whole body is handed to Task.create
NewTaskFromBody(body, userId) ==
    [id |-> TaskOid(taskSeq + 1),
     title |-> TextSetters(body.title),
     description |-> IF TruthyText(body, "description")
                     THEN TextSetters(body.description) ELSE <<>>,
     priority |-> body.priority,
     status |-> IF Has(body, "status") THEN body.status ELSE "Pending",
     userId |-> IF Has(body, "userId") THEN body.userId ELSE userId,
     createdAt |-> now]

\* Task.create: setters and defaults of taskSchema
NewTask(body, userId) ==
    [id |-> TaskOid(taskSeq + 1),
     title |-> TextSetters(body.title),
     description |-> IF TruthyText(body, "description")
                     THEN TextSetters(body.description) ELSE <<>>,
     priority |-> body.priority,
     status |-> "Pending",
     userId |-> userId,
     createdAt |-> now]

\* faulty variant: the schema has no validators
TaskValidationOff(doc) == FALSE

\* the validators of taskSchema, run by create and by save
TaskValidationFails(doc) ==
    \/ doc.title = <<>>
    \/ doc.priority \notin PriorityEnum
    \/ doc.status \notin StatusEnum

createTask(h, body) ==
    LET g == authMiddleware(h) IN
    /\ UNCHANGED <<users, now, issued, inflight, client>>
    /\ IF ~g.admitted
       THEN /\ last' = GuardResponse("createTask", NoId, g)
            /\ UNCHANGED <<tasks, taskSeq>>
       ELSE IF ~TruthyText(body, "title") \/ ~Truthy(body, "priority")
       THEN /\ last' = Response("createTask", g.userId, NoId, 400,
                                "Please provide title and priority")
            /\ UNCHANGED <<tasks, taskSeq>>
       ELSE IF body.priority \notin PriorityEnum
       THEN /\ last' = Response("createTask", g.userId, NoId, 400,
                                "Priority must be High, Medium, or Low")
            /\ UNCHANGED <<tasks, taskSeq>>
       ELSE LET task == NewTask(body, g.userId) IN
            IF TaskValidationFails(task)
            THEN /\ last' = Response("createTask", g.userId, NoId, 500,
                                     "Error creating task")
                 /\ UNCHANGED <<tasks, taskSeq>>
            ELSE /\ tasks' = tasks \cup {task}
                 /\ taskSeq' = taskSeq + 1
                 /\ last' = Response("createTask", g.userId, NoId, 201,
                                     "Task created successfully")
                            @@ [task |-> task]

NotFoundMessage(route) ==
    IF route = "deleteTask"
    THEN "Task not found or you do not have permission to delete it"
    ELSE "Task not found or you do not have permission to update it"

ErrorMessage(route) ==
    CASE route = "updateTask" -> "Error updating task"
      [] route = "deleteTask" -> "Error deleting task"
      [] route = "markTaskCompleted" -> "Error marking task as completed"

\* faulty variant: the task is found by id and a foreign owner is told so
LookupForbidden(route, h, taskId) ==
    LET g == authMiddleware(h) IN
    IF ~g.admitted
    THEN [found |-> FALSE, response |-> GuardResponse(route, taskId, g)]
    ELSE IF ~IsObjectId(taskId)
    THEN [found |-> FALSE,
          response |-> Response(route, g.userId, taskId, 500, ErrorMessage(route))]
    ELSE IF \A t \in tasks : t.id # taskId
    THEN [found |-> FALSE,
          response |-> Response(route, g.userId, taskId, 404, NotFoundMessage(route))]
    ELSE IF FindOneTask(taskId, g.userId) = {}
    THEN [found |-> FALSE,
          response |-> Response(route, g.userId, taskId, 403, "Forbidden")]
    ELSE [found |-> TRUE, userId |-> g.userId,
          doc |-> CHOOSE t \in FindOneTask(taskId, g.userId) : TRUE]

\* the lines updateTask, deleteTask and markTaskCompleted share: the guard,
\* the cast of req.params.id and the ownership-filtered lookup.  The result
\* is a response, or the loaded document under "doc".
Lookup(route, h, taskId) ==
    LET g == authMiddleware(h) IN
    IF ~g.admitted
    THEN [found |-> FALSE, response |-> GuardResponse(route, taskId, g)]
    ELSE IF ~IsObjectId(taskId)
    THEN [found |-> FALSE,
          response |-> Response(route, g.userId, taskId, 500, ErrorMessage(route))]
    ELSE IF FindOneTask(taskId, g.userId) = {}
    THEN [found |-> FALSE,
          response |-> Response(route, g.userId, taskId, 404, NotFoundMessage(route))]
    ELSE [found |-> TRUE, userId |-> g.userId,
          doc |-> CHOOSE t \in FindOneTask(taskId, g.userId) : TRUE]

\* the assignments of updateTask to the loaded document, in source order
ApplyTitle(doc, body) ==
    IF TruthyText(body, "title")
    THEN [doc EXCEPT !.title = TextSetters(body.title)] ELSE doc

ApplyDescription(doc, body) ==
    IF Has(body, "description")
    THEN [doc EXCEPT !.description = TextSetters(body.description)] ELSE doc

ApplyPriority(doc, body) ==
    IF Truthy(body, "priority") THEN [doc EXCEPT !.priority = body.priority] ELSE doc

\* faulty variant: a status that is Completed is never assigned again
ApplyStatusForward(doc, body) ==
    IF Truthy(body, "status") /\ doc.status # "Completed"
    THEN [doc EXCEPT !.status = body.status] ELSE doc

ApplyStatus(doc, body) ==
    IF Truthy(body, "status") THEN [doc EXCEPT !.status = body.status] ELSE doc

\* faulty variant: the owner is assigned from the body like the other fields
ApplyUpdateWithOwner(doc, body) ==
    LET d == ApplyStatus(ApplyPriority(ApplyDescription(ApplyTitle(doc, body), body),
                                       body), body)
    IN  IF Has(body, "userId") THEN [d EXCEPT !.userId = body.userId] ELSE d

ApplyUpdate(doc, body) ==
    ApplyStatus(ApplyPriority(ApplyDescription(ApplyTitle(doc, body), body), body), body)

\* the paths Mongoose marks modified: those whose value differs from the loaded one
ModifiedPaths(loaded, doc) == {k \in DOMAIN doc \ {"id"} : doc[k] # loaded[k]}

\* updateTask, up to the await of task.save()
updateTaskBegin(h, taskId, body) ==
    LET l == Lookup("updateTask", h, taskId) IN
    /\ UNCHANGED <<users, tasks, taskSeq, now, issued, client>>
    /\ IF ~l.found
       THEN /\ last' = l.response
            /\ UNCHANGED inflight
       ELSE IF Truthy(body, "priority") /\ body.priority \notin PriorityEnum
       THEN /\ last' = Response("updateTask", l.userId, taskId, 400,
                                "Priority must be High, Medium, or Low")
            /\ UNCHANGED inflight
       ELSE IF Truthy(body, "status") /\ body.status \notin StatusEnum
       THEN /\ last' = Response("updateTask", l.userId, taskId, 400,
                                "Status must be Pending or Completed")
            /\ UNCHANGED inflight
       ELSE LET doc == ApplyUpdate(l.doc, body) IN
            /\ inflight' = Start([op |-> "save", route |-> "updateTask",
                                  userId |-> l.userId, body |-> body, doc |-> doc,
                                  modified |-> ModifiedPaths(l.doc, doc)])
            /\ UNCHANGED last

\* faulty variant: a task that is Completed already is refused
markTaskCompletedOnce(h, taskId) ==
    LET l == Lookup("markTaskCompleted", h, taskId) IN
    /\ UNCHANGED <<users, tasks, taskSeq, now, issued, client>>
    /\ IF ~l.found
       THEN /\ last' = l.response
            /\ UNCHANGED inflight
       ELSE IF l.doc.status = "Completed"
       THEN /\ last' = Response("markTaskCompleted", l.userId, taskId, 400,
                                "Task is already completed")
            /\ UNCHANGED inflight
       ELSE LET doc == [l.doc EXCEPT !.status = "Completed"] IN
            /\ inflight' = Start([op |-> "save", route |-> "markTaskCompleted",
                                  userId |-> l.userId, doc |-> doc,
                                  modified |-> ModifiedPaths(l.doc, doc)])
            /\ UNCHANGED last

\* markTaskCompleted, up to the await of task.save()
markTaskCompletedBegin(h, taskId) ==
    LET l == Lookup("markTaskCompleted", h, taskId) IN
    /\ UNCHANGED <<users, tasks, taskSeq, now, issued, client>>
    /\ IF ~l.found
       THEN /\ last' = l.response
            /\ UNCHANGED inflight
       ELSE LET doc == [l.doc EXCEPT !.status = "Completed"] IN
            /\ inflight' = Start([op |-> "save", route |-> "markTaskCompleted",
                                  userId |-> l.userId, doc |-> doc,
                                  modified |-> ModifiedPaths(l.doc, doc)])
            /\ UNCHANGED last

\* faulty variant: updateMany({ userId }, { $set: the modified paths })
StoreAfterUpdateMany(doc, modified) ==
    {IF t.userId = doc.userId
     THEN [k \in DOMAIN t |-> IF k \in modified THEN doc[k] ELSE t[k]]
     ELSE t : t \in tasks}

\* the store after updateOne({ _id }, { $set: the modified paths })
StoreAfterSave(doc, modified) ==
    {IF t.id = doc.id
     THEN [k \in DOMAIN t |-> IF k \in modified THEN doc[k] ELSE t[k]]
     ELSE t : t \in tasks}

SuccessMessage(route) ==
    CASE route = "updateTask" -> "Task updated successfully"
      [] route = "markTaskCompleted" -> "Task marked as completed"
      [] route = "deleteTask" -> "Task deleted successfully"

\* faulty variant: a save is refused when the stored document is no longer
\* the one that was loaded (an optimistic-lock check)
SaveVersioned(r) ==
    /\ r \in Pending("save")
    /\ inflight' = Finish(r)
    /\ UNCHANGED <<users, taskSeq, now, issued, client>>
    /\ LET ok == Response(r.route, r.userId, r.doc.id, 200, SuccessMessage(r.route))
                 @@ [task |-> r.doc]
           failed == Response(r.route, r.userId, r.doc.id, 500, ErrorMessage(r.route))
           stale == \E t \in tasks :
                        /\ t.id = r.doc.id
                        /\ \E k \in TaskPaths \ r.modified : t[k] # r.doc[k]
       IN  IF TaskValidationFails(r.doc) \/ stale
           THEN last' = failed /\ UNCHANGED tasks
           ELSE IF r.modified = {}
           THEN last' = ok /\ UNCHANGED tasks
           ELSE IF \E t \in tasks : t.id = r.doc.id
           THEN last' = ok /\ tasks' = StoreAfterSave(r.doc, r.modified)
           ELSE last' \in {ok, failed} /\ UNCHANGED tasks

\* faulty variant: a save that matches no document inserts the document
SaveUpserts(r) ==
    /\ r \in Pending("save")
    /\ inflight' = Finish(r)
    /\ UNCHANGED <<users, taskSeq, now, issued, client>>
    /\ LET ok == Response(r.route, r.userId, r.doc.id, 200, SuccessMessage(r.route))
                 @@ [task |-> r.doc]
           failed == Response(r.route, r.userId, r.doc.id, 500, ErrorMessage(r.route))
       IN  IF TaskValidationFails(r.doc)
           THEN last' = failed /\ UNCHANGED tasks
           ELSE IF \E t \in tasks : t.id = r.doc.id
           THEN last' = ok /\ tasks' = StoreAfterSave(r.doc, r.modified)
           ELSE last' = ok /\ tasks' = tasks \cup {r.doc}

\* task.save() and the response of updateTask / markTaskCompleted.  A save
\* that matches no document is an error (DocumentNotFoundError) or a silent
\* success, depending on the Mongoose release installed.
Save(r) ==
    /\ r \in Pending("save")
    /\ inflight' = Finish(r)
    /\ UNCHANGED <<users, taskSeq, now, issued, client>>
    /\ LET ok == Response(r.route, r.userId, r.doc.id, 200, SuccessMessage(r.route))
                 @@ [task |-> r.doc]
           failed == Response(r.route, r.userId, r.doc.id, 500, ErrorMessage(r.route))
       IN  IF TaskValidationFails(r.doc)
           THEN last' = failed /\ UNCHANGED tasks
           ELSE IF r.modified = {}
           THEN last' = ok /\ UNCHANGED tasks
           ELSE IF \E t \in tasks : t.id = r.doc.id
           THEN last' = ok /\ tasks' = StoreAfterSave(r.doc, r.modified)
           ELSE last' \in {ok, failed} /\ UNCHANGED tasks

\* deleteTask, up to the await of Task.findByIdAndDelete
deleteTaskBegin(h, taskId) ==
    LET l == Lookup("deleteTask", h, taskId) IN
    /\ UNCHANGED <<users, tasks, taskSeq, now, issued, client>>
    /\ IF ~l.found
       THEN /\ last' = l.response
            /\ UNCHANGED inflight
       ELSE /\ inflight' = Start([op |-> "delete", route |-> "deleteTask",
                                  userId |-> l.userId, id |-> taskId])
            /\ UNCHANGED last

\* Task.findByIdAndDelete(taskId) and the response of deleteTask
FindByIdAndDelete(taskId) == {t \in tasks : t.id # taskId}

Delete(r) ==
    /\ r \in Pending("delete")
    /\ inflight' = Finish(r)
    /\ UNCHANGED <<users, taskSeq, now, issued, client>>
    /\ tasks' = FindByIdAndDelete(r.id)
    /\ last' = Response("deleteTask", r.userId, r.id, 200, SuccessMessage("deleteTask"))

\* the passage of time between requests, by d units of the clock
Tick(d) ==
    /\ now' = now + d
    /\ UNCHANGED <<users, tasks, taskSeq, issued, inflight, last, client>>

----------------------------------------------------------------------------
(* The browser client: the API service and the state of the React          *)
(* components (App, TaskList, the task cards)                               *)

\* the page right after it was loaded: localStorage is what it was, the
\* axios instance has no default Authorization header, App shows "Loading"
FreshPage(storage) ==
    [storage |-> storage, header |-> NoHeader, loading |-> TRUE,
     isLoggedIn |-> FALSE, tasks |-> {}, errors |-> {}, requests |-> {}]

\* faulty variant: the token is stored, the default header is left as it was
setAuthTokenStorageOnly(c, token) ==
    IF token # NoToken
    THEN [c EXCEPT !.storage = token]
    ELSE [c EXCEPT !.storage = NoToken, !.header = NoHeader]

setAuthToken(c, token) ==
    IF token # NoToken
    THEN [c EXCEPT !.storage = token, !.header = Header("Bearer", token)]
    ELSE [c EXCEPT !.storage = NoToken, !.header = NoHeader]

getAuthToken(c) == c.storage

initAuthToken(c) ==
    IF getAuthToken(c) # NoToken THEN setAuthToken(c, getAuthToken(c)) ELSE c

logoutUser(c) == setAuthToken(c, NoToken)

----------------------------------------------------------------------------
(* The requests the environment sends *)

RegisterBodies ==
    {[email |-> <<"a">>, password |-> "secret1"],
     [email |-> <<" ", "A">>, password |-> "secret1"],
     [email |-> <<"b">>, password |-> "secret1"],
     [email |-> <<"b">>, password |-> "abc"],
     [email |-> <<" ">>, password |-> "secret1"],
     [email |-> <<"a">>],
     [password |-> "secret1"]}

LoginBodies ==
    {[email |-> <<"a">>, password |-> "secret1"],
     [email |-> <<" ", "A">>, password |-> "secret1"],
     [email |-> <<"b">>, password |-> "secret1"],
     [email |-> <<"a">>, password |-> "hunter22"],
     [email |-> <<"a">>, password |-> ""]}

\* tokens not signed with the server's secret
ForgedTokens ==
    {[userId |-> u.id, iat |-> now, exp |-> now + ExpiresIn, secret |-> "attacker"] :
        u \in users}

\* headers the guard turns away, and headers carrying a token the server issued
DeniedHeaders ==
    {NoHeader, Header("Bearer", NoToken)}
    \cup {Header("Bearer", t) : t \in ForgedTokens}

BearerHeaders == {Header("Bearer", t) : t \in issued}

Headers == DeniedHeaders \cup BearerHeaders \cup {Header("Token", t) : t \in issued}

CreateBodies ==
    {[title |-> <<"A">>, priority |-> "High"],
     [title |-> <<"B">>, description |-> <<"d">>, priority |-> "Low",
      status |-> "Completed", userId |-> UserOid(1)],
     [title |-> <<"A">>, priority |-> "Urgent"],
     [title |-> <<"A">>, priority |-> ""],
     [title |-> <<"A">>],
     [title |-> <<>>, priority |-> "High"],
     [title |-> <<" ">>, priority |-> "High"],
     [priority |-> "High"]}

UpdateBodies ==
    {[title |-> <<"B">>, description |-> <<"d">>, priority |-> "Low"],
     [status |-> "Completed"],
     [status |-> "Pending", userId |-> UserOid(2)],
     [title |-> <<"B">>, priority |-> "Urgent"],
     [title |-> <<"B">>, status |-> "Done"],
     [title |-> <<" ">>],
     [priority |-> "", status |-> "", userId |-> UserOid(2)]}

\* values of req.params.id: every id allocated so far, the next one, a
\* user's id and a string that is no ObjectId
TaskIds ==
    {TaskOid(n) : n \in 1..(taskSeq + 1)} \cup {UserOid(1), MalformedId}

\* a request the guard turns away is sent once, not once per id and body
Some(S) == {CHOOSE x \in S : TRUE}

IdsFor(h) == IF authMiddleware(h).admitted THEN TaskIds ELSE Some(TaskIds)

BodiesFor(h, S) == IF authMiddleware(h).admitted THEN S ELSE Some(S)

----------------------------------------------------------------------------

NoResponse == Response("none", NoUser, NoId, 0, "")

Init ==
    /\ users = {}
    /\ tasks = {}
    /\ taskSeq = 0
    /\ now = 0
    /\ issued = {}
    /\ inflight = EmptyBag
    /\ last = NoResponse
    /\ client = FreshPage(NoToken)

\* the client takes the response off the wire
Deliver ==
    /\ last # NoResponse
    /\ last' = NoResponse
    /\ UNCHANGED <<users, tasks, taskSeq, now, issued, inflight, client>>

\* the response of the previous request has left
Ready == last = NoResponse

\* Spec: the requests arrive one after another, each handler runs to its
\* response before the next request is taken up
Idle == inflight = EmptyBag

TaskHeaders == DeniedHeaders \cup BearerHeaders

Next ==
    \/ \E body \in RegisterBodies : Ready /\ Idle /\ RegisterBegin(body)
    \/ \E r \in BagToSet(inflight) : Ready /\ RegisterCreate(r)
    \/ \E body \in LoginBodies : Ready /\ Login(body)
    \/ \E h \in Headers : Ready /\ getAllTasks(h)
    \/ \E h \in TaskHeaders :
          \E body \in BodiesFor(h, CreateBodies) :
              Ready /\ taskSeq < MaxTasks /\ createTask(h, body)
    \/ \E h \in TaskHeaders :
          \E id \in IdsFor(h), body \in BodiesFor(h, UpdateBodies) :
              Ready /\ Idle /\ updateTaskBegin(h, id, body)
    \/ \E h \in TaskHeaders :
          \E id \in IdsFor(h) : Ready /\ Idle /\ markTaskCompletedBegin(h, id)
    \/ \E h \in TaskHeaders :
          \E id \in IdsFor(h) : Ready /\ Idle /\ deleteTaskBegin(h, id)
    \/ \E r \in BagToSet(inflight) : Ready /\ Save(r)
    \/ \E r \in BagToSet(inflight) : Ready /\ Delete(r)
    \/ Deliver

Spec == Init /\ [][Next]_vars

----------------------------------------------------------------------------
(* SpecConcurrent: handlers interleave at their awaits.  Up to MaxInflight  *)
(* requests are between their first and their second store call.           *)

ConcurrentRegisterBodies ==
    {[email |-> <<"a">>, password |-> "secret1"],
     [email |-> <<" ", "A">>, password |-> "secret1"],
     [email |-> <<"b">>, password |-> "secret1"]}

ConcurrentUpdateBodies ==
    {[title |-> <<"B">>]}

AllocatedIds == {TaskOid(n) : n \in 1..taskSeq}

CanStart == BagCardinality(inflight) < MaxInflight

NextConcurrent ==
    \/ \E body \in ConcurrentRegisterBodies : Ready /\ CanStart /\ RegisterBegin(body)
    \/ \E r \in BagToSet(inflight) : Ready /\ RegisterCreate(r)
    \/ \E h \in BearerHeaders : Ready /\ getAllTasks(h)
    \/ \E h \in BearerHeaders :
          /\ Ready /\ taskSeq < MaxConcurrentTasks
          /\ createTask(h, [title |-> <<"A">>, priority |-> "High"])
    \/ \E h \in BearerHeaders, id \in AllocatedIds, body \in ConcurrentUpdateBodies :
          Ready /\ CanStart /\ updateTaskBegin(h, id, body)
    \/ \E h \in BearerHeaders, id \in AllocatedIds :
          Ready /\ CanStart /\ markTaskCompletedBegin(h, id)
    \/ \E h \in BearerHeaders, id \in AllocatedIds :
          Ready /\ CanStart /\ deleteTaskBegin(h, id)
    \/ \E r \in BagToSet(inflight) : Ready /\ Save(r)
    \/ \E r \in BagToSet(inflight) : Ready /\ Delete(r)
    \/ Deliver

SpecConcurrent == Init /\ [][NextConcurrent]_vars

----------------------------------------------------------------------------
(* SpecClock: time passes between the requests, so that tokens expire and   *)
(* tasks differ in createdAt.  Requests arrive one after another.           *)

ClockRegisterBodies ==
    {[email |-> <<"a">>, password |-> "secret1"],
     [email |-> <<"b">>, password |-> "secret1"]}

ClockLoginBodies ==
    {[email |-> <<"a">>, password |-> "secret1"],
     [email |-> <<"a">>, password |-> "hunter22"]}

ClockCreateBody == [title |-> <<"A">>, priority |-> "High"]

ClockUpdateBody == [status |-> "Pending"]

MayIssue == Cardinality(issued) < MaxTokens

\* the clock moves by a token's lifetime, or by the greater half of it
TickSteps == {ExpiresIn - ExpiresIn \div 2, ExpiresIn}

NextClock ==
    \/ \E body \in ClockRegisterBodies : Ready /\ Idle /\ MayIssue /\ RegisterBegin(body)
    \/ \E r \in BagToSet(inflight) : Ready /\ RegisterCreate(r)
    \/ \E body \in ClockLoginBodies : Ready /\ MayIssue /\ Login(body)
    \/ \E h \in Headers : Ready /\ getAllTasks(h)
    \/ \E h \in Headers :
          Ready /\ taskSeq < MaxClockTasks /\ createTask(h, ClockCreateBody)
    \/ \E h \in Headers, id \in AllocatedIds :
          Ready /\ Idle /\ updateTaskBegin(h, id, ClockUpdateBody)
    \/ \E h \in Headers, id \in AllocatedIds :
          Ready /\ Idle /\ markTaskCompletedBegin(h, id)
    \/ \E h \in Headers, id \in AllocatedIds : Ready /\ Idle /\ deleteTaskBegin(h, id)
    \/ \E r \in BagToSet(inflight) : Ready /\ Save(r)
    \/ \E r \in BagToSet(inflight) : Ready /\ Delete(r)
    \/ \E d \in TickSteps : Ready /\ now + d <= MaxTime /\ Tick(d)
    \/ Deliver

SpecClock == Init /\ [][NextClock]_vars

----------------------------------------------------------------------------
(* SpecUpdates: one user's Update requests on the same task interleave      *)
(* between their lookup and their save.                                     *)

RaceRegisterBody == [email |-> <<"a">>, password |-> "secret1"]

RaceUpdateBodies ==
    {[title |-> <<"B">>, description |-> <<"d">>],
     [title |-> <<"C">>]}

NextUpdates ==
    \/ Ready /\ Idle /\ RegisterBegin(RaceRegisterBody)
    \/ \E r \in BagToSet(inflight) : Ready /\ RegisterCreate(r)
    \/ \E h \in BearerHeaders : Ready /\ getAllTasks(h)
    \/ \E h \in BearerHeaders :
          Ready /\ taskSeq < MaxRaceTasks /\ createTask(h, ClockCreateBody)
    \/ \E h \in BearerHeaders, id \in AllocatedIds, body \in RaceUpdateBodies :
          Ready /\ CanStart /\ updateTaskBegin(h, id, body)
    \/ \E r \in BagToSet(inflight) : Ready /\ Save(r)
    \/ Deliver

SpecUpdates == Init /\ [][NextUpdates]_vars

----------------------------------------------------------------------------
(* SpecOrder: one user creates tasks at different times, changes them and   *)
(* lists them.                                                              *)

NextOrder ==
    \/ Ready /\ Idle /\ MayIssue /\ RegisterBegin(RaceRegisterBody)
    \/ \E r \in BagToSet(inflight) : Ready /\ RegisterCreate(r)
    \/ \E h \in BearerHeaders : Ready /\ getAllTasks(h)
    \/ \E h \in BearerHeaders :
          Ready /\ taskSeq < MaxOrderTasks /\ createTask(h, ClockCreateBody)
    \/ \E h \in BearerHeaders, id \in AllocatedIds :
          Ready /\ Idle /\ updateTaskBegin(h, id, ClockUpdateBody)
    \/ \E h \in BearerHeaders, id \in AllocatedIds :
          Ready /\ Idle /\ markTaskCompletedBegin(h, id)
    \/ \E r \in BagToSet(inflight) : Ready /\ Save(r)
    \/ \E d \in TickSteps : Ready /\ now + d <= MaxTime /\ Tick(d)
    \/ Deliver

SpecOrder == Init /\ [][NextOrder]_vars

----------------------------------------------------------------------------
(* SpecClient: one browser page against the server.  A request the page   *)
(* has sent stays in client.requests, with the values its continuation    *)
(* closed over, until the page takes the response off the wire.  Other    *)
(* sessions create tasks.                                                  *)

ClientLoginBodies ==
    {[email |-> <<"a">>, password |-> "secret1"],
     [email |-> <<"a">>, password |-> "hunter22"]}

ClientRegisterBodies ==
    {[email |-> <<"a">>, password |-> "secret1"],
     [email |-> <<"b">>, password |-> "secret1"]}

ServerVars == <<users, tasks, taskSeq, now, issued, inflight>>

Awaiting(op) == {q \in client.requests : q.op = op}

\* the server holds a request in flight for the route and id of a card
AtServer(op, id) ==
    \/ op = "delete" /\ \E r \in Pending("delete") : r.id = id
    \/ op = "complete" /\ \E r \in Pending("save") : r.doc.id = id
    \/ op = "register" /\ Pending("register") # {}

\* TaskList is mounted: empty state, and useEffect calls fetchTasks
MountTaskList(c) ==
    [c EXCEPT !.tasks = {}, !.errors = {},
              !.requests = @ \cup {[op |-> "fetch", header |-> c.header]}]

\* TaskList and its cards are unmounted: the continuations of their
\* requests set the state of components that are gone
UnmountTaskList(c) ==
    [c EXCEPT !.tasks = {}, !.errors = {},
              !.requests = {q \in @ : q.op \in {"login", "register"}}]

\* the browser loads the page again
Reload ==
    /\ client # FreshPage(client.storage)
    /\ client' = FreshPage(client.storage)
    /\ UNCHANGED <<users, tasks, taskSeq, now, issued, inflight, last>>

\* the effect App runs after its first render
AppMount ==
    /\ client.loading
    /\ LET c1 == initAuthToken(client)
           c2 == [c1 EXCEPT !.isLoggedIn = (getAuthToken(c1) # NoToken),
                            !.loading = FALSE]
       IN  client' = IF c2.isLoggedIn THEN MountTaskList(c2) ELSE c2
    /\ UNCHANGED <<users, tasks, taskSeq, now, issued, inflight, last>>

\* Login.handleSubmit and Register.handleSubmit, up to the await
AuthHandleSubmit(op, body) ==
    /\ ~client.loading /\ ~client.isLoggedIn
    /\ Awaiting(op) = {} /\ ~AtServer(op, NoId) /\ last.route # op
    /\ client' = [client EXCEPT !.requests = @ \cup {[op |-> op, body |-> body]}]
    /\ UNCHANGED <<users, tasks, taskSeq, now, issued, inflight, last>>

\* loginUser / registerUser after the await, then handleSubmit's
\* onLoginSuccess / onRegisterSuccess, which is App.handleAuthSuccess; a
\* response outside 2xx makes axios throw and handleSubmit shows the error
AuthResponse(q) ==
    /\ q \in client.requests /\ q.op \in {"login", "register"}
    /\ last.route = q.op
    /\ LET c0 == [client EXCEPT !.requests = @ \ {q}]
           c1 == setAuthToken(c0, last.token)
           c2 == [c1 EXCEPT !.isLoggedIn = TRUE]
       IN  client' = IF ~Has(last, "token") THEN c0
                     ELSE IF client.isLoggedIn THEN c2
                     ELSE MountTaskList(c2)
    /\ last' = NoResponse
    /\ UNCHANGED ServerVars

\* App.handleLogout
handleLogout ==
    /\ ~client.loading /\ client.isLoggedIn
    /\ client' = UnmountTaskList([logoutUser(client) EXCEPT !.isLoggedIn = FALSE])
    /\ UNCHANGED <<users, tasks, taskSeq, now, issued, inflight, last>>

\* TaskList.fetchTasks after the await
FetchResponse(q) ==
    /\ q \in Awaiting("fetch")
    /\ last.route = "getAllTasks"
    /\ client' = [client EXCEPT
                     !.requests = @ \ {q},
                     !.tasks = IF last.status = 200
                               THEN {last.tasks[i] : i \in 1..Len(last.tasks)}
                               ELSE @]
    /\ last' = NoResponse
    /\ UNCHANGED ServerVars

\* a card's button is shown and enabled
CardEnabled(t) ==
    /\ ~client.loading /\ client.isLoggedIn
    /\ t \in client.tasks
    /\ Awaiting("fetch") = {}
    /\ \A q \in client.requests : q.op \in {"delete", "complete"} => q.id # t.id

\* TaskItem.handleDelete and handleComplete up to the await: the props of
\* the render in which the button was clicked hold TaskList's handler, and
\* that handler holds the tasks array of the same render
CardClick(op, t) ==
    /\ CardEnabled(t)
    /\ ~AtServer(op, t.id)
    /\ op = "complete" => t.status # "Completed"
    /\ client' = [client EXCEPT
                     !.errors = @ \ {t.id},
                     !.requests = @ \cup {[op |-> op, id |-> t.id,
                                           header |-> client.header,
                                           closure |-> client.tasks]}]
    /\ UNCHANGED <<users, tasks, taskSeq, now, issued, inflight, last>>

\* TaskList.handleTaskDelete, with the tasks array it closed over
handleTaskDelete(closure, taskId) == {t \in closure : t.id # taskId}

\* TaskList.handleTaskComplete, with the tasks array it closed over
handleTaskComplete(closure, updatedTask) ==
    {IF t.id = updatedTask.id THEN updatedTask ELSE t : t \in closure}

CardRoute(op) == IF op = "delete" THEN "deleteTask" ELSE "markTaskCompleted"

\* TaskItem.handleDelete and handleComplete after the await
CardResponse(q) ==
    /\ q \in Awaiting("delete") \cup Awaiting("complete")
    /\ last.route = CardRoute(q.op) /\ last.id = q.id
    /\ LET c0 == [client EXCEPT !.requests = @ \ {q}]
       IN  client' =
               IF last.status # 200 THEN [c0 EXCEPT !.errors = @ \cup {q.id}]
               ELSE IF q.op = "delete"
               THEN [c0 EXCEPT !.tasks = handleTaskDelete(q.closure, q.id)]
               ELSE [c0 EXCEPT !.tasks = handleTaskComplete(q.closure, last.task)]
    /\ last' = NoResponse
    /\ UNCHANGED ServerVars

\* a response none of the page's continuations waits for
Orphan ==
    /\ last # NoResponse
    /\ \A q \in client.requests :
          /\ q.op \in {"login", "register"} => last.route # q.op
          /\ q.op = "fetch" => last.route # "getAllTasks"
          /\ q.op \in {"delete", "complete"}
                => ~(last.route = CardRoute(q.op) /\ last.id = q.id)

NextClient ==
    \/ Reload
    \/ AppMount
    \/ \E body \in ClientLoginBodies : AuthHandleSubmit("login", body)
    \/ \E body \in ClientRegisterBodies : AuthHandleSubmit("register", body)
    \/ \E q \in Awaiting("login") : Ready /\ Login(q.body)
    \/ \E q \in Awaiting("register") :
          Ready /\ ~AtServer("register", NoId) /\ RegisterBegin(q.body)
    \/ \E r \in BagToSet(inflight) : Ready /\ RegisterCreate(r)
    \/ \E q \in client.requests : AuthResponse(q)
    \/ handleLogout
    \/ \E t \in issued :
          Ready /\ taskSeq < MaxClientTasks
                /\ createTask(Header("Bearer", t), ClockCreateBody)
    \/ \E q \in Awaiting("fetch") : Ready /\ getAllTasks(q.header)
    \/ \E q \in client.requests : FetchResponse(q)
    \/ \E t \in client.tasks : CardClick("delete", t)
    \/ \E t \in client.tasks : CardClick("complete", t)
    \/ \E q \in Awaiting("delete") :
          Ready /\ ~AtServer("delete", q.id) /\ deleteTaskBegin(q.header, q.id)
    \/ \E q \in Awaiting("complete") :
          Ready /\ ~AtServer("complete", q.id)
                /\ markTaskCompletedBegin(q.header, q.id)
    \/ \E r \in BagToSet(inflight) : Ready /\ Delete(r)
    \/ \E r \in BagToSet(inflight) : Ready /\ Save(r)
    \/ \E q \in client.requests : CardResponse(q)
    \/ Orphan /\ Deliver

SpecClient == Init /\ [][NextClient]_vars

\* SpecSession: the steps of SpecClient that sign in, sign out and load the
\* page; no task is created and no card is shown
NextSession ==
    \/ Reload
    \/ AppMount
    \/ \E body \in ClientLoginBodies : AuthHandleSubmit("login", body)
    \/ \E body \in ClientRegisterBodies : AuthHandleSubmit("register", body)
    \/ \E q \in Awaiting("login") : Ready /\ Login(q.body)
    \/ \E q \in Awaiting("register") :
          Ready /\ ~AtServer("register", NoId) /\ RegisterBegin(q.body)
    \/ \E r \in BagToSet(inflight) : Ready /\ RegisterCreate(r)
    \/ \E q \in client.requests : AuthResponse(q)
    \/ handleLogout
    \/ \E q \in Awaiting("fetch") : Ready /\ getAllTasks(q.header)
    \/ \E q \in client.requests : FetchResponse(q)
    \/ Orphan /\ Deliver

SpecSession == Init /\ [][NextSession]_vars

----------------------------------------------------------------------------
(* Properties *)

TaskRoutes ==
    {"getAllTasks", "createTask", "updateTask", "deleteTask", "markTaskCompleted"}

IdRoutes == {"updateTask", "deleteTask", "markTaskCompleted"}

\* the requests in flight that a caller's updateTask, deleteTask or
\* markTaskCompleted left behind
TaskRequests == {r \in BagToSet(inflight) : r.op \in {"save", "delete"}}

\* C1: every task in the response to a List made under user A's identity is
\* owned by A; no task of another user is in it.
C1_ListReturnsOnlyOwnTasks ==
    (last.route = "getAllTasks" /\ last.status = 200)
        => \A i \in 1..Len(last.tasks) : last.tasks[i].userId = last.reqUserId

\* a List has answered with a task while another user's task is stored
C1_Witness ==
    /\ last.route = "getAllTasks" /\ last.status = 200
    /\ Len(last.tasks) >= 1
    /\ \E t \in tasks : t.userId # last.reqUserId

\* C2: a stored task is changed or removed only by the second step of an
\* Update, Delete or Complete that runs under the identity of the task's
\* owner; a request under another user's token leaves it as it was, under
\* any interleaving.
C2_OnlyOwnerChangesTask ==
    [][\A t \in tasks :
          t \notin tasks' =>
              \E r \in TaskRequests : r.userId = t.userId /\ (Save(r) \/ Delete(r))]_vars

\* user B's Complete on the id of user A's pending task was turned away and
\* the task is still pending
C2_Witness ==
    /\ last.route = "markTaskCompleted" /\ last.status = 404
    /\ last.reqUserId # NoUser
    /\ \E t \in tasks :
          t.id = last.id /\ t.userId # last.reqUserId /\ t.status = "Pending"

C3_NotFoundBody(route) ==
    IF route = "deleteTask"
    THEN "Task not found or you do not have permission to delete it"
    ELSE "Task not found or you do not have permission to update it"

\* C3: for Update, Delete and Complete, an admitted caller who names an id
\* of no task of their own gets status 404 and the route's one not-found
\* body, whether a task of another user has that id or no task has it; no
\* 403 or other response tells the two apart.
C3_NotFoundIsUniform ==
    [][(/\ last = NoResponse /\ last' # NoResponse
        /\ inflight' = inflight
        /\ last'.route \in IdRoutes /\ last'.by = last'.route
        /\ IsObjectId(last'.id)
        /\ ~\E t \in tasks : t.id = last'.id /\ t.userId = last'.reqUserId)
       => /\ last'.status = 404
          /\ last'.message = C3_NotFoundBody(last'.route)
          /\ DOMAIN last' = DOMAIN NoResponse]_vars

\* a Delete was answered 404 for the id of a task that another user owns
C3_Witness ==
    /\ last.route = "deleteTask" /\ last.status = 404
    /\ last.reqUserId # NoUser
    /\ \E t \in tasks : t.id = last.id /\ t.userId # last.reqUserId

\* the token of the header was issued by register or login and has not expired
C4_TokenStands(h) == h.present /\ h.token \in issued /\ now < h.token.exp

\* the route's handler took the request up under identity u
C4_HandlerRanAs(route, u) ==
    \/ last' # NoResponse /\ last'.route = route /\ last'.by = route
       /\ last'.reqUserId = u
    \/ /\ last' = last
       /\ \E r \in {q \in BagToSet(inflight') : q.op \in {"save", "delete"}} :
             r.route = route /\ r.userId = u /\ inflight' = Start(r)

\* the guard answered 401 and nothing else happened
C4_TurnedAway(route) ==
    /\ last'.route = route /\ last'.by = "authMiddleware"
    /\ last'.status = 401 /\ last'.reqUserId = NoUser
    /\ UNCHANGED <<users, tasks, taskSeq, issued, inflight>>

C4_Guarded(route, h) ==
    IF C4_TokenStands(h)
    THEN C4_HandlerRanAs(route, h.token.userId)
    ELSE C4_TurnedAway(route)

\* the step answers on the route, or leaves a request in flight
C4_StepOf(route) ==
    /\ last = NoResponse
    /\ IF last' # NoResponse THEN last'.route = route ELSE inflight' # inflight

\* C4: a task handler runs only for a request whose token register or
\* login issued and which has not expired, and then under the user id the
\* token was issued for; any other request is answered 401 by the guard and
\* reaches no handler.
C4_HandlersRunBehindGuard ==
    [][\A h \in Headers :
          /\ (C4_StepOf("getAllTasks") /\ getAllTasks(h))
                => C4_Guarded("getAllTasks", h)
          /\ (C4_StepOf("createTask") /\ createTask(h, ClockCreateBody))
                => C4_Guarded("createTask", h)
          /\ \A id \in AllocatedIds :
                /\ (C4_StepOf("updateTask") /\ updateTaskBegin(h, id, ClockUpdateBody))
                      => C4_Guarded("updateTask", h)
                /\ (C4_StepOf("markTaskCompleted") /\ markTaskCompletedBegin(h, id))
                      => C4_Guarded("markTaskCompleted", h)
                /\ (C4_StepOf("deleteTask") /\ deleteTaskBegin(h, id))
                      => C4_Guarded("deleteTask", h)]_vars

\* a handler answered under the identity of an issued token while another
\* issued token has expired
C4_Witness ==
    /\ last.route \in TaskRoutes /\ last.by = last.route
    /\ \E t \in issued : t.userId = last.reqUserId /\ now < t.exp
    /\ \E t \in issued : now >= t.exp

\* C5: a request to one of the five task routes without an Authorization
\* header is answered 401 by the guard, no handler runs, and users and tasks
\* stay as they are.
C5_NoHeaderIs401 ==
    [][(\/ getAllTasks(NoHeader)
        \/ \E body \in BodiesFor(NoHeader, CreateBodies) : createTask(NoHeader, body)
        \/ \E id \in IdsFor(NoHeader), body \in BodiesFor(NoHeader, UpdateBodies) :
               updateTaskBegin(NoHeader, id, body)
        \/ \E id \in IdsFor(NoHeader) : markTaskCompletedBegin(NoHeader, id)
        \/ \E id \in IdsFor(NoHeader) : deleteTaskBegin(NoHeader, id))
       => /\ last'.status = 401 /\ last'.by = "authMiddleware"
          /\ last'.reqUserId = NoUser
          /\ UNCHANGED <<users, tasks, taskSeq, inflight>>]_vars

\* a Delete without header was answered 401 while tasks are stored
C5_Witness ==
    /\ last.route = "deleteTask" /\ last.status = 401
    /\ last.by = "authMiddleware"
    /\ last.message = "No token provided. Authorization denied."
    /\ tasks # {}

\* the credentials (email, password) are those of user record u
C6_Credentials(u, email, password) ==
    u.email = EmailSetters(email) /\ u.password = Hash(password)

\* a register answered 201 leaves a record with the returned userId and the
\* request's credentials
C6_RegisterRecords ==
    \A r \in BagToSet(inflight) :
        (r.op = "register" /\ last'.status = 201 /\ RegisterCreate(r))
            => \E u \in users' \ users :
                   u.id = last'.userId /\ C6_Credentials(u, r.email, r.password)

\* a login with the credentials of a record is answered 200 with that
\* record's id and a token the guard resolves to it
C6_LoginHonours ==
    \A body \in LoginBodies :
        (last'.route = "login" /\ Login(body)) =>
            \A u \in users :
                (/\ Has(body, "email") /\ Has(body, "password")
                 /\ C6_Credentials(u, body.email, body.password))
                    => /\ last'.status = 200
                       /\ last'.userId = u.id
                       /\ authMiddleware(Header("Bearer", last'.token)).admitted
                       /\ authMiddleware(Header("Bearer", last'.token)).userId = u.id

\* C6: an email and password that register accepted with 201 stay the
\* credentials of the user id it returned (no step changes or drops a user
\* record), and every later login with them returns 200 with a token whose
\* verified identity is that user id, whatever happened in between.
C6_RegisterThenLogin ==
    [][/\ \A u \in users : u \in users'
       /\ C6_RegisterRecords
       /\ C6_LoginHonours]_vars

\* the first user logged in after a second user registered and tasks were
\* created
C6_Witness ==
    /\ last.route = "login" /\ last.status = 200
    /\ last.userId = UserOid(1)
    /\ \E u \in users : u.id = UserOid(1) /\ u.email = <<"a">>
    /\ Cardinality(users) = 2
    /\ tasks # {}

\* C7: no two user records have the same email, compared after trimming
\* and lower-casing, also when two registers for one email both pass the
\* existence check before either creates its record.
C7_EmailsUnique ==
    \A u, v \in users : EmailSetters(u.email) = EmailSetters(v.email) => u = v

\* a register that passed the existence check is still in flight while a
\* record with its email has been created by another register
C7_Witness ==
    \E r \in BagToSet(inflight), u \in users :
        r.op = "register" /\ u.email = EmailSetters(r.email)

C8_Held(email) == \E u \in users : EmailSetters(u.email) = EmailSetters(email)

C8_Refused ==
    /\ last'.route = "register" /\ last'.status = 400
    /\ ~Has(last', "token")
    /\ users' = users

\* C8: a register whose email is held by a user record when it reaches the
\* store, be it at the existence check or, after a concurrent register got
\* in between, at the create, is answered 400, returns no token and leaves
\* the user records unchanged.
C8_DuplicateEmailIs400 ==
    [][/\ \A body \in ConcurrentRegisterBodies :
             (RegisterBegin(body) /\ C8_Held(body.email)) => C8_Refused
       /\ \A r \in BagToSet(inflight) :
             (r.op = "register" /\ RegisterCreate(r) /\ C8_Held(r.email))
                 => C8_Refused]_vars

\* the body of a Create that C9 names as invalid
C9_Invalid(body) ==
    \/ ~Has(body, "title")
    \/ body.title = <<>>
    \/ ~Has(body, "priority")
    \/ body.priority \notin {"High", "Medium", "Low"}

\* C9: a Create by an admitted caller with a missing or empty title, a
\* missing priority or a priority outside High, Medium, Low is answered 400
\* and the stored tasks are the same before and after.
C9_InvalidCreateIs400 ==
    [][last'.route = "createTask" =>
          \A h \in BearerHeaders, body \in CreateBodies :
              (C9_Invalid(body) /\ createTask(h, body))
                  => last'.status = 400 /\ tasks' = tasks /\ taskSeq' = taskSeq]_vars

\* a Create with a priority outside the enum was answered 400
C9_Witness ==
    /\ last.route = "createTask" /\ last.status = 400
    /\ last.message = "Priority must be High, Medium, or Low"
    /\ last.reqUserId # NoUser

\* C10: a successful Create adds one task, with status Pending and with
\* the identity of the caller's token as owner, whatever status or userId
\* the body carries.
C10_CreateIgnoresStatusAndOwner ==
    [][(last'.route = "createTask" /\ last'.status = 201) =>
          \A h \in BearerHeaders, body \in CreateBodies :
              createTask(h, body)
                  => /\ tasks' \ tasks = {last'.task}
                     /\ tasks \subseteq tasks'
                     /\ last'.task.status = "Pending"
                     /\ last'.task.userId = h.token.userId
                     /\ h.token \in issued]_vars

\* the second user created a task from the body that carries status
\* Completed and the first user's id (the only body with title B)
C10_Witness ==
    /\ last.route = "createTask" /\ last.status = 201
    /\ last.task.title = <<"B">>
    /\ last.reqUserId = UserOid(2)
    /\ last.task \in tasks

\* the value a body gives for a field, as the schema's setters store it
C11_Given(body, k) ==
    IF k \in {"title", "description"} THEN TextSetters(body[k]) ELSE body[k]

\* C11: a successful Update by the owner leaves the task with the body's
\* value in each of title, description, priority and status that the body
\* carries, and with its previous value in every other field and in the
\* owner.
C11_UpdateSetsPresentFields ==
    [][\A r \in TaskRequests :
          (r.route = "updateTask" /\ Save(r) /\ last'.status = 200)
              => \E t \in tasks, u \in tasks' :
                     /\ t.id = r.doc.id /\ u.id = r.doc.id
                     /\ u.userId = t.userId
                     /\ \A k \in TaskPaths :
                           u[k] = IF Has(r.body, k) THEN C11_Given(r.body, k)
                                  ELSE t[k]]_vars

\* the body of an Update that C12 names as invalid
C12_Invalid(body) ==
    \/ Has(body, "priority") /\ body.priority \notin {"High", "Medium", "Low"}
    \/ Has(body, "status") /\ body.status \notin {"Pending", "Completed"}

\* C12: an Update by the owner whose body carries a priority outside High,
\* Medium, Low or a status outside Pending, Completed (the empty string
\* included) is answered 400 at once, and the stored tasks keep their
\* values.
C12_InvalidUpdateIs400 ==
    [][last = NoResponse =>
          \A h \in BearerHeaders, id \in AllocatedIds, body \in UpdateBodies :
              (/\ C12_Invalid(body)
               /\ \E t \in tasks : t.id = id /\ t.userId = h.token.userId
               /\ updateTaskBegin(h, id, body))
                  => /\ last'.status = 400
                     /\ tasks' = tasks
                     /\ inflight' = inflight]_vars

\* the ids of the tasks that were created and have been deleted
C13_Deleted == {TaskOid(n) : n \in 1..taskSeq} \ {t.id : t \in tasks}

\* C13: a Delete answered 200 leaves no task with its id, and once a task
\* is deleted no step brings a task with its id back (neither a Create nor
\* the save of an Update or Complete that looked it up before the delete),
\* no List shows it, and every Update, Delete or Complete then begun on its
\* id is answered 404.
C13_DeleteIsPermanent ==
    [][/\ \A r \in TaskRequests :
             (r.op = "delete" /\ Delete(r) /\ last'.status = 200)
                 => \A t \in tasks' : t.id # r.id
       /\ \A id \in C13_Deleted :
             /\ \A t \in tasks' : t.id # id
             /\ (last'.route = "getAllTasks" /\ last'.status = 200)
                   => \A i \in 1..Len(last'.tasks) : last'.tasks[i].id # id
             /\ \A h \in BearerHeaders :
                   (\/ \E body \in ConcurrentUpdateBodies : updateTaskBegin(h, id, body)
                    \/ markTaskCompletedBegin(h, id)
                    \/ deleteTaskBegin(h, id))
                       => last'.status = 404 /\ inflight' = inflight]_vars

\* an Update that looked the task up before its Delete has saved after it
\* and was answered 200, and the task is not stored
C13_Witness ==
    /\ last.route = "updateTask" /\ last.status = 200
    /\ last.id \in C13_Deleted

\* C14: a Complete by the owner is taken up whatever the task's status is,
\* and is answered 200 with status Completed; it leaves the task Completed
\* with every other field and the owner as before, so a second Complete in
\* a row leaves the stored task as the first one left it.
C14_CompleteIsIdempotent ==
    [][/\ last = NoResponse =>
             \A h \in BearerHeaders, id \in AllocatedIds :
                 (/\ \E t \in tasks : t.id = id /\ t.userId = h.token.userId
                  /\ markTaskCompletedBegin(h, id))
                     => /\ last' = NoResponse
                        /\ \E r \in BagToSet(inflight') :
                              /\ r.route = "markTaskCompleted" /\ r.doc.id = id
                              /\ inflight' = Start(r)
       /\ \A r \in TaskRequests :
             (r.route = "markTaskCompleted" /\ Save(r))
                 => /\ last'.status = 200
                    /\ last'.task.status = "Completed"
                    /\ \E t \in tasks :
                          /\ t.id = r.doc.id
                          /\ tasks' = (tasks \ {t})
                                       \cup {[t EXCEPT !.status = "Completed"]}
                          /\ t.status = "Completed" => tasks' = tasks]_vars

\* a Complete has been taken up for a task that an earlier Complete or
\* Update left Completed (the request changes no path of the document)
C14_Witness ==
    \E r \in TaskRequests :
        /\ r.route = "markTaskCompleted" /\ r.modified = {}
        /\ \E t \in tasks : t.id = r.doc.id /\ t.status = "Completed"

\* the tasks of S that user u owns
C15_Own(S, u) == {t \in S : t.userId = u}

\* the stored tasks of a user are those the user created and did not
\* delete, with the values of the latest successful Update or Complete: a
\* step changes them only by adding the task a Create of the user returned,
\* by replacing a task by the one an Update or Complete of the user
\* returned, or by removing the task a Delete of the user named
C15_StoreFollowsOperations ==
    \A u \in {x.id : x \in users} :
        LET before == C15_Own(tasks, u)
            after == C15_Own(tasks', u)
        IN  \/ after = before
            \/ /\ last'.route = "createTask" /\ last'.status = 201
               /\ last'.reqUserId = u
               /\ last'.task.id \notin {TaskOid(n) : n \in 1..taskSeq}
               /\ after = before \cup {last'.task}
            \/ /\ last'.route \in {"updateTask", "markTaskCompleted"}
               /\ last'.status = 200 /\ last'.reqUserId = u
               /\ \E t \in before :
                     t.id = last'.id /\ after = (before \ {t}) \cup {last'.task}
            \/ /\ last'.route = "deleteTask" /\ last'.status = 200
               /\ last'.reqUserId = u
               /\ after = {t \in before : t.id # last'.id}

\* C15: List for user A returns exactly the tasks A created and did not
\* delete, each once, with the values the latest successful Update or
\* Complete left, and count is the length of the array.
C15_ListIsExact ==
    [][/\ C15_StoreFollowsOperations
       /\ (last'.route = "getAllTasks" /\ last'.status = 200) =>
             LET own == C15_Own(tasks', last'.reqUserId) IN
             /\ {last'.tasks[i] : i \in 1..Len(last'.tasks)} = own
             /\ Len(last'.tasks) = Cardinality(own)
             /\ last'.count = Len(last'.tasks)]_vars

\* after register, one Create and one Complete, List has returned one task,
\* with status Completed
C15_Witness ==
    /\ last.route = "getAllTasks" /\ last.status = 200
    /\ Cardinality(users) = 1 /\ taskSeq = 1
    /\ last.count = 1 /\ Len(last.tasks) = 1
    /\ last.tasks[1].title = <<"A">> /\ last.tasks[1].priority = "High"
    /\ last.tasks[1].status = "Completed"

\* C16 as claimed: in the response to List a task created after another
\* one (ids are given in the order of creation) precedes it.
C16_ListNewestCreatedFirst ==
    (last.route = "getAllTasks" /\ last.status = 200)
        => \A i, j \in 1..Len(last.tasks) :
               last.tasks[i].id[2] > last.tasks[j].id[2] => i < j

\* C16 as amended: a task's createdAt is the time of its Create and no
\* Update or Complete changes it, and in the response to List a task with a
\* later createdAt precedes one with an earlier createdAt.
C16_ListByCreationTime ==
    [][/\ \A t \in tasks' :
             \/ \E t0 \in tasks : t0.id = t.id /\ t0.createdAt = t.createdAt
             \/ /\ \A t0 \in tasks : t0.id # t.id
                /\ t.createdAt = now
       /\ (last'.route = "getAllTasks" /\ last'.status = 200) =>
             \A i, j \in 1..Len(last'.tasks) :
                 last'.tasks[i].createdAt > last'.tasks[j].createdAt => i < j]_vars

\* a List has returned two tasks created at different times, the older one
\* completed since
C16_Witness ==
    /\ last.route = "getAllTasks" /\ last.status = 200
    /\ Len(last.tasks) = 2
    /\ last.tasks[1].createdAt > last.tasks[2].createdAt
    /\ last.tasks[1].id[2] > last.tasks[2].id[2]
    /\ last.tasks[1].status = "Pending" /\ last.tasks[2].status = "Completed"

\* C17: a stored task keeps the owner it had in the previous state, and a
\* task that is new in a step is the one a Create returned, owned by the
\* identity the Create ran under, which is that of an issued token;
\* whatever Update bodies are sent, with a userId or without.
C17_OwnerNeverChanges ==
    [][\A t \in tasks' :
          \/ \E t0 \in tasks : t0.id = t.id /\ t0.userId = t.userId
          \/ /\ \A t0 \in tasks : t0.id # t.id
             /\ last'.route = "createTask" /\ last'.status = 201
             /\ last'.task = t
             /\ t.userId = last'.reqUserId
             /\ \E token \in issued : token.userId = t.userId]_vars

\* the first user's Update of their task A with a body that carries the
\* second user's id (every Update body that leaves title A and status
\* Pending does) was answered 200, and the task is still the first user's
C17_Witness ==
    /\ last.route = "updateTask" /\ last.status = 200
    /\ last.reqUserId = UserOid(1)
    /\ last.task.title = <<"A">> /\ last.task.status = "Pending"
    /\ Cardinality(users) = 2
    /\ \E t \in tasks : t.id = last.id /\ t.userId = UserOid(1)

\* C18 as claimed: the save of an Update is answered 200 whatever other
\* Update saved since its lookup, and leaves every field its body carries
\* with the body's value: the request that saves last wins.
C18_LastWriteWins ==
    [][\A r \in TaskRequests :
          (r.route = "updateTask" /\ Save(r))
              => /\ last'.status = 200
                 /\ \A t \in tasks' :
                       t.id = r.doc.id =>
                           \A k \in TaskPaths :
                               Has(r.body, k) => t[k] = C11_Given(r.body, k)]_vars

\* C18 as amended: the save of an Update is answered 200 whatever other
\* Update saved since its lookup; every field to which the request gave a
\* value other than the one it looked up has the request's value
\* afterwards, and every other field keeps the stored value, also one that
\* the body carries with the value the request looked up.
C18_LastChangeWins ==
    [][\A r \in TaskRequests :
          (r.route = "updateTask" /\ Save(r))
              => /\ last'.status = 200
                 /\ \A t \in tasks : t.id = r.doc.id =>
                       \E u \in tasks' :
                           /\ u.id = t.id
                           /\ \A k \in DOMAIN t :
                                 u[k] = IF k \in r.modified THEN r.doc[k] ELSE t[k]]_vars

\* two Updates that both wrote the title looked the task up before either
\* saved: the one with title B and description d saved first, the one with
\* title C saved last and was answered 200 with the description it had
\* looked up; the stored title is C, title B is lost
C18_Witness ==
    /\ last.route = "updateTask" /\ last.status = 200
    /\ last.task.title = <<"C">> /\ last.task.description = <<>>
    /\ \E t \in tasks :
          t.id = last.id /\ t.title = <<"C">> /\ t.description = <<"d">>

\* C19: a token carries the time of its issue, and a request to a task
\* route that presents an issued token is taken up by the handler, under
\* the token's user, while fewer than ExpiresIn days have passed since the
\* issue, and is answered 401 by the guard, reaching no handler, from then
\* on.
C19_TokenExpiresAfterSevenDays ==
    [][/\ \A t \in issued' \ issued : t.iat = now
       /\ \A t \in issued :
             LET h == Header("Bearer", t)
                 Held(route) == IF now < t.iat + ExpiresIn
                                THEN C4_HandlerRanAs(route, t.userId)
                                ELSE C4_TurnedAway(route)
             IN  /\ (C4_StepOf("getAllTasks") /\ getAllTasks(h))
                       => Held("getAllTasks")
                 /\ (C4_StepOf("createTask") /\ createTask(h, ClockCreateBody))
                       => Held("createTask")
                 /\ \A id \in AllocatedIds :
                       /\ (C4_StepOf("updateTask")
                            /\ updateTaskBegin(h, id, ClockUpdateBody))
                             => Held("updateTask")
                       /\ (C4_StepOf("markTaskCompleted")
                            /\ markTaskCompletedBegin(h, id))
                             => Held("markTaskCompleted")
                       /\ (C4_StepOf("deleteTask") /\ deleteTaskBegin(h, id))
                             => Held("deleteTask")]_vars

\* a handler ran for a user whose only token was issued some time ago and
\* has not reached its expiry, while another user's only token is past its
\* expiry
C19_Witness ==
    /\ last.route \in TaskRoutes /\ last.by = last.route
    /\ \E t \in issued :
          /\ t.userId = last.reqUserId
          /\ t.iat < now /\ now < t.iat + ExpiresIn
          /\ \A t2 \in issued : t2.userId = t.userId => t2 = t
    /\ \E t \in issued :
          /\ now > t.iat + ExpiresIn
          /\ \A t2 \in issued : t2.userId = t.userId => t2 = t

\* C20: in every reachable state, whatever logins and task operations came
\* after its issue, every token that register or login issued and that has
\* not reached its expiry is accepted by the guard, for the user it was
\* issued to.
C20_TokensStayValid ==
    \A t \in issued :
        now < t.exp =>
            /\ authMiddleware(Header("Bearer", t)).admitted
            /\ authMiddleware(Header("Bearer", t)).userId = t.userId

\* a user holds two tokens, issued at different times and both unexpired,
\* and a task handler has answered that user after the second was issued
C20_Witness ==
    /\ last.route \in TaskRoutes /\ last.by = last.route
    /\ tasks # {}
    /\ \E t1, t2 \in issued :
          /\ t1.userId = t2.userId /\ t1.iat < t2.iat
          /\ t1.userId = last.reqUserId
          /\ now < t1.exp

\* the user records whose email and password hash are those of a login body
C21_Matching(body) ==
    {u \in users : u.email = EmailSetters(body.email)
                   /\ u.password = Hash(body.password)}

\* C21: a login returns or issues a token only for a body whose email is
\* that of a user record and whose password is that record's, and the token
\* is that user's; a login whose email and password are both given and
\* match no record is answered 401, carries no token, and leaves users,
\* tasks and issued tokens as they were.
C21_LoginNeedsCredentials ==
    [][\A body \in LoginBodies :
          (last = NoResponse /\ last'.route = "login" /\ Login(body)) =>
              /\ (issued' # issued \/ Has(last', "token")) =>
                    /\ Has(body, "email") /\ Has(body, "password")
                    /\ \E u \in C21_Matching(body) :
                          /\ last'.userId = u.id
                          /\ last'.token.userId = u.id
                          /\ issued' = issued \cup {last'.token}
              /\ (/\ TruthyText(body, "email") /\ Truthy(body, "password")
                  /\ C21_Matching(body) = {})
                    => /\ last'.status = 401
                       /\ ~Has(last', "token")
                       /\ UNCHANGED <<users, tasks, taskSeq, issued, inflight>>]_vars

\* a login was answered 401 although every email the environment sends is
\* registered: the password was not the record's
C21_Witness ==
    /\ last.route = "login" /\ last.status = 401
    /\ \A body \in LoginBodies :
          Has(body, "email") => FindUserByEmail(body.email) # {}
    /\ issued # {}

\* the header has the form "Bearer <token>" and its token verifies
C22_WellFormed(h) ==
    /\ h.present /\ h.scheme = "Bearer" /\ h.token # NoToken
    /\ h.token \in issued /\ now < h.token.exp

\* C22: a List request is taken up by its handler only if its header has
\* the form "Bearer <token>" with a token that verifies; a request whose
\* header has no token part, or a scheme word other than Bearer, is answered
\* 401 by the guard and reaches no handler.
C22_OnlyBearerIsAdmitted ==
    [][\A h \in Headers :
          (C4_StepOf("getAllTasks") /\ getAllTasks(h)) =>
              IF C22_WellFormed(h)
              THEN C4_HandlerRanAs("getAllTasks", h.token.userId)
              ELSE C4_TurnedAway("getAllTasks")]_vars

\* a body that carries status Pending and nothing the handler or the store
\* refuses
C23_Reopening(body) ==
    /\ Has(body, "status") /\ body.status = "Pending"
    /\ ~C12_Invalid(body)
    /\ Has(body, "title") => (body.title = <<>> \/ TextSetters(body.title) # <<>>)

\* the save of a Complete leaves every status as it was or Completed
C23_CompleteOnlyCompletes ==
    \A r \in Pending("save") :
        (r.route = "markTaskCompleted" /\ Save(r)) =>
            \A t \in tasks, u \in tasks' :
                t.id = u.id => (u.status = t.status \/ u.status = "Completed")

\* a status that goes from Completed to Pending does so in the save of an
\* Update by the task's owner with status Pending in its body, answered 200
C23_ReopenedByUpdateOnly ==
    \A t \in tasks, u \in tasks' :
        (t.id = u.id /\ t.status = "Completed" /\ u.status = "Pending") =>
            \E r \in Pending("save") :
                /\ r.route = "updateTask" /\ r.userId = t.userId
                /\ r.doc.id = t.id
                /\ Has(r.body, "status") /\ r.body.status = "Pending"
                /\ Save(r)
                /\ last'.status = 200 /\ last'.task.status = "Pending"

\* an Update with status Pending by the owner of a Completed task goes on
\* to its save, and the save is answered 200 and stores Pending
C23_UpdateReopens ==
    /\ C4_StepOf("updateTask") =>
          \A body \in {b \in UpdateBodies : C23_Reopening(b)} :
              \A t \in {c \in tasks : c.status = "Completed"} :
                  \A h \in {b \in BearerHeaders : authMiddleware(b).admitted
                                    /\ authMiddleware(b).userId = t.userId} :
                      updateTaskBegin(h, t.id, body)
                          => \E r \in Pending("save")' :
                                 /\ r.route = "updateTask" /\ r.doc.id = t.id
                                 /\ r.doc.status = "Pending"
                                 /\ "status" \in r.modified
    /\ \A r \in Pending("save") :
          (/\ r.route = "updateTask" /\ C23_Reopening(r.body)
           /\ \E t \in tasks : t.id = r.doc.id /\ t.status = "Completed"
           /\ Save(r))
              => /\ last'.status = 200
                 /\ \E u \in tasks' : u.id = r.doc.id /\ u.status = "Pending"

\* C23: Complete only ever moves a status to Completed; a stored status
\* goes from Completed back to Pending only in a successful Update by the
\* owner whose body carries status Pending; and such an Update on a
\* Completed task succeeds.
C23_StatusTransitions ==
    [][/\ C23_CompleteOnlyCompletes
       /\ C23_ReopenedByUpdateOnly
       /\ C23_UpdateReopens]_vars

\* a task is stored as Completed and its owner's Update with status Pending
\* has been taken up and is about to save the status
C23_Witness ==
    \E r \in Pending("save"), t \in tasks :
        /\ r.route = "updateTask" /\ r.doc.id = t.id /\ t.status = "Completed"
        /\ r.doc.status = "Pending" /\ "status" \in r.modified

\* the user records and every stored task with another id than taskId are
\* after the step what they were before it
C24_Frame(taskId) ==
    /\ users' = users
    /\ {t \in tasks : t.id # taskId} = {t \in tasks' : t.id # taskId}

\* the task id a request in flight addresses
C24_IdOf(r) == IF r.op = "save" THEN r.doc.id ELSE r.id

\* C24: a Create keeps every stored task and every user record and adds at
\* most one task, exactly one when answered 201; every step of an Update,
\* Delete or Complete on id t, answered with success or failure or still
\* before its store call, leaves every stored task other than t and every
\* user record unchanged.
C24_OneTaskPerOperation ==
    [][/\ (last = NoResponse /\ last'.route = "createTask") =>
             /\ users' = users
             /\ tasks \subseteq tasks'
             /\ Cardinality(tasks' \ tasks) = IF last'.status = 201 THEN 1 ELSE 0
       /\ (last = NoResponse /\ last'.route \in IdRoutes) => C24_Frame(last'.id)
       /\ \A r \in TaskRequests' :
             (last' = NoResponse /\ inflight' = Start(r)) => C24_Frame(C24_IdOf(r))]_vars

\* the first task was deleted while a second task was stored, which is
\* still there
C24_Witness ==
    /\ last.route = "deleteTask" /\ last.status = 200
    /\ last.id = TaskOid(1)
    /\ \E t \in tasks : t.id = TaskOid(2)

\* C25: an Update, Delete or Complete that the guard admitted and whose id
\* matches no stored task of the caller, an id that is no well-formed
\* ObjectId included, is answered 404 and leaves users and tasks unchanged
\* and nothing in flight.
C25_AbsentIs404 ==
    [][(/\ last = NoResponse
        /\ last'.route \in IdRoutes /\ last'.by = last'.route
        /\ FindOneTask(last'.id, last'.reqUserId) = {})
          => /\ last'.status = 404
             /\ UNCHANGED <<users, tasks, taskSeq, inflight>>]_vars

\* C26: in every reachable state every stored task has a non-empty title,
\* a priority among High, Medium, Low, a status among Pending, Completed,
\* and an owner that is the id of a stored user record.
C26_StoredTasksAreValid ==
    \A t \in tasks :
        /\ t.title # <<>>
        /\ t.priority \in {"High", "Medium", "Low"}
        /\ t.status \in {"Pending", "Completed"}
        /\ \E u \in users : u.id = t.userId

\* an Update whose title is blank after trimming was refused by the
\* validators at save, and the task it addressed is stored
C26_Witness ==
    /\ last.route = "updateTask" /\ last.status = 500
    /\ \E t \in tasks : t.id = last.id

\* C27: a register whose password is not empty and shorter than
\* MinPasswordLength characters is answered 400 without a token, whether
\* it is refused before or at the creation of the record, and leaves users
\* and issued tokens unchanged.
C27_ShortPasswordIs400 ==
    [][/\ \A body \in RegisterBodies :
             (/\ last = NoResponse /\ last'.route = "register"
              /\ Truthy(body, "password") /\ Len(body.password) < MinPasswordLength
              /\ TruthyText(body, "email")
              /\ RegisterBegin(body))
                 => /\ last'.status = 400 /\ ~Has(last', "token")
                    /\ users' = users /\ issued' = issued
       /\ \A r \in Pending("register") :
             (/\ last = NoResponse
              /\ r.password # "" /\ Len(r.password) < MinPasswordLength
              /\ RegisterCreate(r))
                 => /\ last'.status = 400 /\ ~Has(last', "token")
                    /\ users' = users /\ issued' = issued]_vars

\* a Create body whose title is not empty and is empty after trimming
C28_BlankTitle(body) ==
    Has(body, "title") /\ body.title # <<>> /\ TextSetters(body.title) = <<>>

\* C28: a Create by an admitted caller whose title consists of whitespace
\* only is answered 400 and adds no task.
C28_BlankTitleIs400 ==
    [][C4_StepOf("createTask") =>
          \A body \in {b \in CreateBodies : C28_BlankTitle(b)} :
              \A h \in {b \in BearerHeaders : authMiddleware(b).admitted} :
                  createTask(h, body)
                      => /\ last'.status = 400
                         /\ tasks' = tasks /\ taskSeq' = taskSeq]_vars

\* the displayed array holds no task the server no longer stores and shows
\* as Completed every task the server stores as Completed
C29_Agrees ==
    \A t \in client.tasks :
        \E s \in tasks :
            s.id = t.id /\ (s.status = "Completed" => t.status = "Completed")

\* C29: when the page takes a successful response to a card's Delete or
\* Complete off the wire and then no card request is pending and no card
\* shows an error, the displayed task array agrees with the server, also
\* when a second card's request was started before the first card's
\* response arrived.
C29_CardsAgreeWithServer ==
    [][\A q \in client.requests :
          (/\ last.status = 200
           /\ CardResponse(q)
           /\ client'.errors = {}
           /\ \A p \in client'.requests : p.op \notin {"delete", "complete"})
              => C29_Agrees']_vars

\* C30: once App has run its first effect, the task list view is shown
\* if and only if localStorage holds a token, the default Authorization
\* header is then "Bearer" and that token, and there is no default
\* Authorization header when no token is held.
C30_ViewFollowsToken ==
    ~client.loading =>
        /\ client.isLoggedIn <=> getAuthToken(client) # NoToken
        /\ client.header = IF getAuthToken(client) # NoToken
                           THEN Header("Bearer", getAuthToken(client))
                           ELSE NoHeader

\* the task list is shown under the second user's token, the list's
\* first request carries that token, and the first user has a token too
C30_Witness ==
    /\ ~client.loading /\ client.isLoggedIn
    /\ client.storage.userId = UserOid(2)
    /\ \E q \in client.requests : q.op = "fetch" /\ q.header.token = client.storage
    /\ \E t \in issued : t.userId = UserOid(1)
    /\ client.tasks = {}

====
